---- MODULE Spec2Model ----
(***************************************************************************)
(* Model of the MileSplit meet-results scraper:                            *)
(*   src/get_milesplit_formatted_meet_results.py                           *)
(*       extract_race_id, extract_table_data, detect_cole, wrangle_cole,   *)
(*       detect_max, process_urls_and_save                                 *)
(*   src/detect_cole.py                                                    *)
(*       detect_cole (the variant that reads the HTML from a file)         *)
(*                                                                         *)
(* Two specifications:                                                     *)
(*   Spec    the batch loop of process_urls_and_save, one step per URL;    *)
(*   FnSpec  the pure functions (detectors, extractors) applied to one     *)
(*           page drawn from a bounded set of pages.                       *)
(*                                                                         *)
(* The functions are modelled as they behave when called.  The statements  *)
(* at module level that run them on local files (lines 235-236 and         *)
(* 316-339 of the first file, 68-78 of the second) are not modelled.       *)
(***************************************************************************)
EXTENDS Integers, Sequences, FiniteSets, TLC

(***************************************************************************)
(* Python floats.  A Python float is an IEEE-754 binary64: 53 significant  *)
(* bits, round to nearest, ties to even.  A non-negative float below 4 is  *)
(* held exactly as a tuple of NLimbs digits in base 2^LimbBits, most       *)
(* significant first: digit 1 is the integer part, digit i weighs          *)
(* Base^(1-i).  Every value the detectors compute is 0 or at least 2^-5,   *)
(* so its 53 significant bits fit in this width.                           *)
(***************************************************************************)
MantBits == 53

LimbBits == 12

FracLimbs == 5

NLimbs == FracLimbs + 1

Base == 2^LimbBits

Zeros(n) == [i \in 1..n |-> 0]

\* the number of bits of v, 0 for 0
RECURSIVE BitLen(_)
BitLen(v) == IF v = 0 THEN 0 ELSE 1 + BitLen(v \div 2)

\* carry propagation from the least significant digit; c[i] may exceed Base
RECURSIVE Normalize(_, _, _, _)
Normalize(c, i, carry, acc) ==
    IF i = 0 THEN acc
    ELSE LET s == c[i] + carry
         IN  Normalize(c, i - 1, s \div Base, <<s % Base>> \o acc)

\* exact sum of two digit tuples of the same length (the sum fits)
AddLimbs(a, b) ==
    Normalize([i \in 1..Len(a) |-> a[i] + b[i]], Len(a), 0, <<>>)

\* l with the bits below 2^r of digit la and the digits after la dropped,
\* rounded to nearest, ties to even
RoundAt(l, la, r) ==
    LET low  == l[la] % 2^r
        \* the leading digit of the dropped part, and half its weight
        top  == IF r >= 1 THEN low ELSE l[la + 1]
        half == IF r >= 1 THEN 2^(r - 1) ELSE Base \div 2
        rest == \E j \in (IF r >= 1 THEN la + 1 ELSE la + 2)..Len(l) : l[j] # 0
        odd  == (l[la] \div 2^r) % 2 = 1
        trunc == [i \in 1..Len(l) |-> IF i < la THEN l[i]
                                      ELSE IF i = la THEN l[la] - low ELSE 0]
        one   == [i \in 1..Len(l) |-> IF i = la THEN 2^r ELSE 0]
    IN  IF top > half \/ (top = half /\ (rest \/ odd))
        THEN AddLimbs(trunc, one) ELSE trunc

\* l with its drop lowest bits rounded away
RoundDrop(l, drop) ==
    IF drop <= 0 THEN l
    ELSE RoundAt(l, Len(l) - (drop \div LimbBits), drop % LimbBits)

\* l, whose leading non-zero digit is digit li, rounded to MantBits bits
RoundFrom(l, li) ==
    RoundDrop(l, BitLen(l[li]) + (Len(l) - li) * LimbBits - MantBits)

\* round a digit tuple to MantBits significant bits, ties to even
Round53(l) ==
    IF \A i \in 1..Len(l) : l[i] = 0 THEN l
    ELSE RoundFrom(l, CHOOSE i \in 1..Len(l) :
                         l[i] # 0 /\ \A j \in 1..(i - 1) : l[j] = 0)

\* x + y on floats
FAdd(x, y) == Round53(AddLimbs(x, y))

\* the digits of t / d after the point, then a last digit that is non-zero
\* iff the division left a remainder
RECURSIVE DivFrom(_, _, _, _)
DivFrom(t, d, k, acc) ==
    IF k = 0 THEN acc \o <<IF t > 0 THEN 1 ELSE 0>>
    ELSE DivFrom((t * Base) % d, d, k - 1, acc \o <<(t * Base) \div d>>)

\* the float nearest to n / d (0 <= n < 4 * d): a decimal literal such as 0.6
\* is FromRatio(6, 10), and Python's int / int division rounds the same way
FromRatio(n, d) ==
    SubSeq(Round53(DivFrom(n % d, d, 2 * NLimbs, <<n \div d>>)), 1, NLimbs)

RECURSIVE ColumnSum(_, _, _, _)
ColumnSum(x, y, r, i) ==
    IF i > Len(x) THEN 0
    ELSE (IF r + 1 - i >= 1 /\ r + 1 - i <= Len(y) THEN x[i] * y[r + 1 - i] ELSE 0)
         + ColumnSum(x, y, r, i + 1)

\* x * y on floats: the exact product (digit r weighs Base^(1-r)), rounded
FMul(x, y) ==
    LET n == 2 * Len(x) - 1
        cols == [r \in 1..n |-> ColumnSum(x, y, r, 1)]
    IN  SubSeq(Round53(Normalize(cols, n, 0, <<>>)), 1, NLimbs)

FLess(x, y) ==
    \E i \in 1..NLimbs : x[i] < y[i] /\ \A j \in 1..(i - 1) : x[j] = y[j]

FGe(x, y) == ~FLess(x, y)

\* Python's min(a, b): b only if b < a
FMin(a, b) == IF FLess(b, a) THEN b ELSE a

F0_0 == Zeros(NLimbs)

F1_0 == FromRatio(1, 1)

F0_6 == FromRatio(6, 10)

F0_3 == FromRatio(3, 10)

F0_1 == FromRatio(1, 10)

F0_7 == FromRatio(7, 10)

(***************************************************************************)
(* Python strings.  TLC gives Len, \o and SubSeq on strings; the str       *)
(* methods the code calls are built from them, character by character.     *)
(***************************************************************************)
At(s, i) == SubSeq(s, i, i)

UpperAlpha == "ABCDEFGHIJKLMNOPQRSTUVWXYZ"

LowerAlpha == "abcdefghijklmnopqrstuvwxyz"

Digits == "0123456789"

\* the position of character c in alphabet, 0 if it is not there
IndexIn(alphabet, c) ==
    IF \E i \in 1..Len(alphabet) : At(alphabet, i) = c
    THEN CHOOSE i \in 1..Len(alphabet) : At(alphabet, i) = c
    ELSE 0

IsUpperChar(c) == IndexIn(UpperAlpha, c) > 0

IsLowerChar(c) == IndexIn(LowerAlpha, c) > 0

IsLetter(c) == IsUpperChar(c) \/ IsLowerChar(c)

IsDigitChar(c) == IndexIn(Digits, c) > 0

\* the characters the regular expression class \s and str.strip() take as blank
IsSpaceChar(c) == c \in {" ", "\t", "\n", "\r"}

LowerChar(c) == IF IsUpperChar(c) THEN At(LowerAlpha, IndexIn(UpperAlpha, c)) ELSE c

UpperChar(c) == IF IsLowerChar(c) THEN At(UpperAlpha, IndexIn(LowerAlpha, c)) ELSE c

RECURSIVE LowerFrom(_, _)
LowerFrom(s, i) ==
    IF i > Len(s) THEN "" ELSE LowerChar(At(s, i)) \o LowerFrom(s, i + 1)

\* str.lower()
Lower(s) == LowerFrom(s, 1)

RECURSIVE TitleFrom(_, _)
TitleFrom(s, i) ==
    IF i > Len(s) THEN ""
    ELSE (IF i > 1 /\ IsLetter(At(s, i - 1))
          THEN LowerChar(At(s, i)) ELSE UpperChar(At(s, i)))
         \o TitleFrom(s, i + 1)

\* str.title(): a letter is upper-cased when it does not follow a letter
Title(s) == TitleFrom(s, 1)

\* str.strip()
Strip(s) ==
    LET keep == {i \in 1..Len(s) : ~IsSpaceChar(At(s, i))}
    IN  IF keep = {} THEN ""
        ELSE SubSeq(s, CHOOSE i \in keep : \A j \in keep : i <= j,
                       CHOOSE i \in keep : \A j \in keep : i >= j)

\* t in s
Contains(s, t) ==
    \E i \in 1..(Len(s) - Len(t) + 1) : SubSeq(s, i, i + Len(t) - 1) = t

RECURSIVE IntFrom(_, _)
IntFrom(s, n) ==
    IF n = 0 THEN 0 ELSE 10 * IntFrom(s, n - 1) + (IndexIn(Digits, At(s, n)) - 1)

\* int(s) of a string of decimal digits
IntOf(s) == IntFrom(s, Len(s))

(***************************************************************************)
(* The two regular expressions of wrangle_cole, matched at the start of a  *)
(* line ln as re.match does.  Each stage below picks, in the order the     *)
(* backtracking matcher tries them (greedy: longest first, lazy: shortest  *)
(* first), the first choice for which the rest of the pattern can match.   *)
(***************************************************************************)
IsSp(ln, i) == i >= 1 /\ i <= Len(ln) /\ IsSpaceChar(At(ln, i))

IsDg(ln, i) == i >= 1 /\ i <= Len(ln) /\ IsDigitChar(At(ln, i))

IsCh(ln, i, c) == i >= 1 /\ i <= Len(ln) /\ At(ln, i) = c

\* length of the longest run of blanks starting at p
SpRun(ln, p) ==
    LET stop == {i \in p..(Len(ln) + 1) : ~IsSp(ln, i)}
    IN  (CHOOSE i \in stop : \A j \in stop : i <= j) - p

\* length of the longest run of digits starting at p
DgRun(ln, p) ==
    LET stop == {i \in p..(Len(ln) + 1) : ~IsDg(ln, i)}
    IN  (CHOOSE i \in stop : \A j \in stop : i <= j) - p

MaxOf(S) == CHOOSE i \in S : \A j \in S : i >= j

MinOf(S) == CHOOSE i \in S : \A j \in S : i <= j

\* r"^\s*\d+": the filter for data lines
StartsWithPlace(ln) == DgRun(ln, 1 + SpRun(ln, 1)) >= 1

\* (\d{1,2}:\d{2}\.\d) at p: the number of characters matched, 0 if none
TimeLen(ln, p) ==
    IF IsDg(ln, p) /\ IsDg(ln, p + 1) /\ IsCh(ln, p + 2, ":") /\ IsDg(ln, p + 3)
       /\ IsDg(ln, p + 4) /\ IsCh(ln, p + 5, ".") /\ IsDg(ln, p + 6)
    THEN 7
    ELSE IF IsDg(ln, p) /\ IsCh(ln, p + 1, ":") /\ IsDg(ln, p + 2)
            /\ IsDg(ln, p + 3) /\ IsCh(ln, p + 4, ".") /\ IsDg(ln, p + 5)
    THEN 6
    ELSE 0

\* \s+(\d{1,2}:\d{2}\.\d) at q: the blank runs after which the time matches
FinishGaps(ln, q) == {k \in 1..SpRun(ln, q) : TimeLen(ln, q + k) > 0}

\* (.+?)\s+(time) with the team starting at t: the ends e of the team
TeamEnds(ln, t) == {e \in t..Len(ln) : FinishGaps(ln, e + 1) # {}}

\* \s+(.+?)\s+(time) at p
TeamGaps(ln, p) == {k \in 1..SpRun(ln, p) : TeamEnds(ln, p + k) # {}}

\* (\d+)?\s+(.+?)\s+(time) at g: the lengths of a grade (0: the group is unset)
GradeLens(ln, g) == {m \in 0..DgRun(ln, g) : TeamGaps(ln, g + m) # {}}

\* \s+(\d+)?\s+(.+?)\s+(time) at p
GradeGaps(ln, p) == {k \in 1..SpRun(ln, p) : GradeLens(ln, p + k) # {}}

\* (.+?)\s+(\d+)?... with the athlete starting at a0: the ends of the athlete
AthleteEnds(ln, a0) == {e \in a0..Len(ln) : GradeGaps(ln, e + 1) # {}}

\* \s+(.+?)... at p, after the place
AthleteGaps(ln, p) == {k \in 1..SpRun(ln, p) : AthleteEnds(ln, p + k) # {}}

\* the result of a match: the five groups, group 3 as "" with has3 FALSE when
\* it took no part
Groups(ln, p0, pl, a0, a1, g0, gl, t0, t1, f0) ==
    [matched |-> TRUE,
     g1 |-> SubSeq(ln, p0, p0 + pl - 1),
     g2 |-> SubSeq(ln, a0, a1),
     has3 |-> gl > 0,
     g3 |-> SubSeq(ln, g0, g0 + gl - 1),
     g4 |-> SubSeq(ln, t0, t1),
     g5 |-> SubSeq(ln, f0, f0 + TimeLen(ln, f0) - 1)]

NoMatch ==
    [matched |-> FALSE, g1 |-> "", g2 |-> "", has3 |-> FALSE,
     g3 |-> "", g4 |-> "", g5 |-> ""]

\* the stages of the match, each fixing the next position from the ones
\* before it: the team's end t1 (lazy, shortest) and the finish's start f0
\* (after the longest blank run)
MatchTeam(ln, p0, pl, a0, a1, g0, gl, t0, t1) ==
    Groups(ln, p0, pl, a0, a1, g0, gl, t0, t1,
           t1 + 1 + MaxOf(FinishGaps(ln, t1 + 1)))

\* the grade's length gl (greedy, optional) and the team's start t0
MatchGrade(ln, p0, pl, a0, a1, g0, gl) ==
    MatchTeam(ln, p0, pl, a0, a1, g0, gl,
              g0 + gl + MaxOf(TeamGaps(ln, g0 + gl)),
              MinOf(TeamEnds(ln, g0 + gl + MaxOf(TeamGaps(ln, g0 + gl)))))

\* the athlete's end a1 (lazy, shortest) and the grade's start g0
MatchAthlete(ln, p0, pl, a0, a1) ==
    MatchGrade(ln, p0, pl, a0, a1,
               a1 + 1 + MaxOf(GradeGaps(ln, a1 + 1)),
               MaxOf(GradeLens(ln, a1 + 1 + MaxOf(GradeGaps(ln, a1 + 1)))))

\* the place's length pl (greedy) and the athlete's start a0
MatchPlace(ln, p0, pl) ==
    IF pl = 0 \/ AthleteGaps(ln, p0 + pl) = {} THEN NoMatch
    ELSE MatchAthlete(ln, p0, pl,
                      p0 + pl + MaxOf(AthleteGaps(ln, p0 + pl)),
                      MinOf(AthleteEnds(ln, p0 + pl + MaxOf(AthleteGaps(ln, p0 + pl)))))

\* re.match(r"^\s*(\d+)\s+(.+?)\s+(\d+)?\s+(.+?)\s+(\d{1,2}:\d{2}\.\d)", ln)
MatchRow(ln) == MatchPlace(ln, 1 + SpRun(ln, 1), DgRun(ln, 1 + SpRun(ln, 1)))

(***************************************************************************)
(* Python values held in dictionaries and DataFrames.  Every value is a    *)
(* record of the same shape, so that any two of them can be compared.      *)
(***************************************************************************)
PyInt(n) == [k |-> "int", i |-> n, s |-> ""]

PyStr(t) == [k |-> "str", i |-> 0, s |-> t]

\* None, pd.NA and the NaN pandas fills a missing cell with
PyNone == [k |-> "None", i |-> 0, s |-> ""]

PyNA == [k |-> "NA", i |-> 0, s |-> ""]

PyNaN == [k |-> "NaN", i |-> 0, s |-> ""]

\* a dict is the sequence of its <<key, value>> pairs in insertion order
DictKeys(d) == [i \in 1..Len(d) |-> d[i][1]]

DictHas(d, key) == \E i \in 1..Len(d) : d[i][1] = key

DictGet(d, key) == d[CHOOSE i \in 1..Len(d) : d[i][1] = key][2]

\* d[key] = v
DictSet(d, key, v) ==
    IF DictHas(d, key)
    THEN [i \in 1..Len(d) |-> IF d[i][1] = key THEN <<key, v>> ELSE d[i]]
    ELSE Append(d, <<key, v>>)

SeqToSet(q) == {q[i] : i \in 1..Len(q)}

\* a followed by the elements of b not yet in it, in b's order
RECURSIVE OrderedUnion(_, _)
OrderedUnion(a, b) ==
    IF b = <<>> THEN a
    ELSE OrderedUnion(IF Head(b) \in SeqToSet(a) THEN a ELSE Append(a, Head(b)), Tail(b))

RECURSIVE KeysOfAll(_)
KeysOfAll(dicts) ==
    IF dicts = <<>> THEN <<>>
    ELSE OrderedUnion(DictKeys(Head(dicts)), KeysOfAll(Tail(dicts)))

\* a DataFrame: the column names in order and one row per record, a row being
\* a function from the column names to values
EmptyFrame == [columns |-> <<>>, rows |-> <<>>]

\* pd.DataFrame(dicts, columns=cols): the named columns, NaN where a dict has
\* no such key
FrameWithColumns(dicts, cols) ==
    [columns |-> cols,
     rows |-> [r \in 1..Len(dicts) |->
                 [c \in SeqToSet(cols) |->
                    IF DictHas(dicts[r], c) THEN DictGet(dicts[r], c) ELSE PyNaN]]]

\* pd.DataFrame(dicts): the columns are the keys the dicts hold
FrameFromDicts(dicts) == FrameWithColumns(dicts, KeysOfAll(dicts))

\* df.empty
FrameEmpty(df) == df.rows = <<>> \/ df.columns = <<>>

\* pd.concat([a, b], ignore_index=True)
Concat(a, b) ==
    LET cols == OrderedUnion(a.columns, b.columns)
        fill(row) == [c \in SeqToSet(cols) |-> IF c \in DOMAIN row THEN row[c] ELSE PyNaN]
    IN  [columns |-> cols,
         rows |-> [r \in 1..(Len(a.rows) + Len(b.rows)) |->
                     IF r <= Len(a.rows) THEN fill(a.rows[r])
                     ELSE fill(b.rows[r - Len(a.rows)])]]

(***************************************************************************)
(* Exceptions: a call returns [raised, type, exc, value]; exc is str(e).   *)
(***************************************************************************)
Return(v) == [raised |-> FALSE, type |-> "", exc |-> "", value |-> v]

Raise(type, msg) == [raised |-> TRUE, type |-> type, exc |-> msg, value |-> PyNone]

\* the names the module binds with def or by assignment before any function
\* of it is called; calling any other global name raises NameError
ModuleNames ==
    {"INDIVIDUAL_TABLE_HEADERS", "TEAM_TABLE_HEADERS", "extract_race_id",
     "extract_table_data", "detect_cole", "wrangle_cole", "detect_max",
     "process_urls_and_save"}

NameError(name) == Raise("NameError", "name '" \o name \o "' is not defined")

\* the header list with the video column left out
IndividualHeadersWithoutVideo ==
    <<"place", "athlete", "grade", "team", "finish", "point">>

INDIVIDUAL_TABLE_HEADERS ==
    <<"place", "video", "athlete", "grade", "team", "finish", "point">>

TEAM_TABLE_HEADERS == <<"place", "tsTeam", "point", "wind", "heat">>

(***************************************************************************)
(* A page.  What the functions read of the parsed HTML:                    *)
(*   containers  the elements carrying id or class meetResultsBody, in     *)
(*               document order, each with its tag, whether it carries the *)
(*               name as id or as class, its <pre> blocks (each the lines  *)
(*               of its text) and the tables nested in it;                 *)
(*   tables      the tables outside any container, which follow the        *)
(*               containers in the document.                               *)
(* A table has its class tokens, whether its rows sit in a <tbody>, and    *)
(* its <tr> rows; a row has the texts of its <th> cells and its <td>       *)
(* cells, a cell its first class token (NoClass: no class attribute), its  *)
(* text and the href of a link in it (NoHref: none).                       *)
(***************************************************************************)
NoClass == "<no class>"

NoHref == ""

\* soup.find_all("table"): the tables in document order
AllTables(html) ==
    LET RECURSIVE Nested(_)
        Nested(i) == IF i > Len(html.containers) THEN <<>>
                     ELSE html.containers[i].tables \o Nested(i + 1)
    IN  Nested(1) \o html.tables

\* the text of a <pre> block
RECURSIVE JoinLines(_)
JoinLines(lines) ==
    IF lines = <<>> THEN ""
    ELSE IF Len(lines) = 1 THEN lines[1]
    ELSE lines[1] \o "\n" \o JoinLines(Tail(lines))

\* str.splitlines()
RECURSIVE SplitLines(_)
SplitLines(text) ==
    IF text = "" THEN <<>>
    ELSE LET nl == {i \in 1..Len(text) : At(text, i) = "\n"}
         IN  IF nl = {} THEN <<text>>
             ELSE <<SubSeq(text, 1, MinOf(nl) - 1)>>
                  \o SplitLines(SubSeq(text, MinOf(nl) + 1, Len(text)))

\* src/get_milesplit_formatted_meet_results.py:12  re.search(r'results/(\d+)/', url)
extract_race_id(url) ==
    LET hits == {i \in 1..(Len(url) - 7) :
                    /\ SubSeq(url, i, i + 7) = "results/"
                    /\ DgRun(url, i + 8) >= 1
                    /\ IsCh(url, i + 8 + DgRun(url, i + 8), "/")}
    IN  IF hits = {} THEN PyNone
        ELSE PyStr(SubSeq(url, MinOf(hits) + 8,
                          MinOf(hits) + 7 + DgRun(url, MinOf(hits) + 8)))

\* a call name(url) of a global name, as Python resolves it when the call
\* runs: extract_race_id is the one function of a URL the module binds
CallGlobal(name, url) ==
    IF name \in ModuleNames /\ name = "extract_race_id"
    THEN Return(extract_race_id(url))
    ELSE NameError(name)

(***************************************************************************)
(* extract_table_data, lines 19-89: the body after race_id is bound.       *)
(* acc holds all_data["individual"], all_data["team"] and metadata.        *)
(***************************************************************************)
TableMeta(race_id, url, table_index, table_type, row_count) ==
    <<<<"race_id", race_id>>, <<"url", PyStr(url)>>,
      <<"table_index", table_index>>, <<"table_type", PyStr(table_type)>>,
      <<"row_count", row_count>>>>

\* lines 66-72: the dict of one row
RECURSIVE RowData(_, _, _, _)
RowData(headers, cells, k, row_data) ==
    IF k > Len(headers) THEN row_data
    ELSE LET with_text == DictSet(row_data, headers[k], PyStr(Strip(cells[k].text)))
             with_url  == IF cells[k].href # NoHref
                          THEN DictSet(with_text, headers[k] \o "_url", PyStr(cells[k].href))
                          ELSE with_text
         IN  RowData(headers, cells, k + 1, with_url)

\* lines 61-74: the rows after the first, those with as many cells as headers
RECURSIVE TableRows(_, _, _, _, _)
TableRows(rows, k, headers, race_id, url) ==
    IF k > Len(rows) THEN <<>>
    ELSE (IF Len(rows[k].tds) # Len(headers) THEN <<>>
          ELSE <<RowData(headers, rows[k].tds, 1,
                         <<<<"race_id", race_id>>, <<"race_url", PyStr(url)>>>>)>>)
         \o TableRows(rows, k + 1, headers, race_id, url)

\* lines 29-83: the loop over the tables, from table k on
RECURSIVE TablesFrom(_, _, _, _, _)
TablesFrom(tables, k, race_id, url, acc) ==
    IF k > Len(tables) THEN Return(acc)
    ELSE
    LET rows == tables[k].rows
    IN  IF rows = <<>>
        THEN TablesFrom(tables, k + 1, race_id, url,
                 [acc EXCEPT !.metadata =
                      Append(@, TableMeta(race_id, url, PyInt(k), "empty", PyInt(0)))])
        ELSE IF Len(rows) < 2
        THEN Raise("IndexError", "list index out of range")   \* first_row = rows[1]
        ELSE
        LET first_row == rows[2]
            headers == [c \in 1..Len(first_row.tds) |-> first_row.tds[c].class]
            table_type ==
                IF \A c \in 1..Len(headers) : headers[c] \in SeqToSet(INDIVIDUAL_TABLE_HEADERS)
                THEN "individual"
                ELSE IF \A c \in 1..Len(headers) : headers[c] \in SeqToSet(TEAM_TABLE_HEADERS)
                THEN "team"
                ELSE "unknown_headers"
            meta == TableMeta(race_id, url, PyInt(k), table_type, PyInt(Len(rows) - 1))
            data == TableRows(rows, 2, headers, race_id, url)
        IN  TablesFrom(tables, k + 1, race_id, url,
                [individual |-> IF table_type = "individual"
                                THEN acc.individual \o data ELSE acc.individual,
                 team       |-> IF table_type = "team" THEN acc.team \o data ELSE acc.team,
                 metadata   |-> Append(acc.metadata, meta)])

\* lines 19-89; the value is <<data, metadata_df>>
ExtractTables(html, url, race_id) ==
    IF AllTables(html) = <<>>
    THEN Return([individual |-> EmptyFrame, team |-> EmptyFrame, metadata |-> EmptyFrame])
    ELSE LET r == TablesFrom(AllTables(html), 1, race_id, url,
                             [individual |-> <<>>, team |-> <<>>, metadata |-> <<>>])
         IN  IF r.raised THEN r
             ELSE Return([individual |-> FrameFromDicts(r.value.individual),
                          team       |-> FrameFromDicts(r.value.team),
                          metadata   |-> FrameFromDicts(r.value.metadata)])

\* extract_table_data with line 18 calling extract_race_id, the name the
\* module defines
ExtractTableDataCallingExtractRaceId(page_content, url) ==
    LET race_id == CallGlobal("extract_race_id", url)
    IN  IF race_id.raised THEN race_id
        ELSE ExtractTables(page_content, url, race_id.value)

\* src/get_milesplit_formatted_meet_results.py:17
\* line 18 calls extraccheckt_race_id, a name the module never binds
extract_table_data(page_content, url) ==
    LET race_id == CallGlobal("extraccheckt_race_id", url)
    IN  IF race_id.raised THEN race_id
        ELSE ExtractTables(page_content, url, race_id.value)

(***************************************************************************)
(* detect_cole, src/get_milesplit_formatted_meet_results.py:91             *)
(***************************************************************************)
REQUIRED_HEADERS_COLE == {"pl", "athlete", "yr", "team", "time"}

\* soup.find(id="meetResultsBody") or soup.find(class_="meetResultsBody"):
\* the index of the element found, 0 for None
ResultsBody(html) ==
    LET by_id == {i \in 1..Len(html.containers) : html.containers[i].mark = "id"}
        by_class == {i \in 1..Len(html.containers) : html.containers[i].mark = "class"}
    IN  IF by_id # {} THEN MinOf(by_id)
        ELSE IF by_class # {} THEN MinOf(by_class)
        ELSE 0

\* lines 116-120: some <pre> holds every required header
HasColeHeaders(pre_blocks) ==
    \E k \in 1..Len(pre_blocks) :
        LET text == Lower(Strip(JoinLines(pre_blocks[k])))
        IN  \A h \in REQUIRED_HEADERS_COLE : Contains(text, h)

\* line 129
FoundTeamScores(pre_blocks) ==
    \E k \in 1..Len(pre_blocks) : Contains(Lower(JoinLines(pre_blocks[k])), "team scores")

detect_cole(html_content) ==
    IF ResultsBody(html_content) = 0 THEN F0_0
    ELSE LET results_body == html_content.containers[ResultsBody(html_content)]
             pre_blocks   == results_body.pres
             table_blocks == results_body.tables
             score1 == IF HasColeHeaders(pre_blocks) THEN FAdd(F0_0, F0_6) ELSE F0_0
         IN  IF pre_blocks # <<>> /\ table_blocks = <<>>
             THEN LET score2 == FAdd(score1, F0_3)
                      score3 == IF ~FoundTeamScores(pre_blocks)
                                THEN FAdd(score2, F0_1) ELSE score2
                  IN  FMin(F1_0, score3)
             ELSE F0_0

\* src/detect_cole.py:4: the same detector on the HTML read from a file;
\* file is [found, html]
detect_cole_path(file) ==
    IF ~file.found THEN F0_0 ELSE detect_cole(file.html)

(***************************************************************************)
(* wrangle_cole, src/get_milesplit_formatted_meet_results.py:136           *)
(***************************************************************************)
\* soup.find("div", id="meetResultsBody"): the index found, 0 for None
ResultsDiv(html) ==
    LET divs == {i \in 1..Len(html.containers) :
                    html.containers[i].tag = "div" /\ html.containers[i].mark = "id"}
    IN  IF divs # {} THEN MinOf(divs) ELSE 0

\* lines 167-181: the dict of a line the pattern matched with groups m
ColeRow(m) ==
    <<<<"place", PyInt(IntOf(m.g1))>>,
      <<"video", PyNone>>,
      <<"athlete", PyStr(Title(Strip(m.g2)))>>,
      <<"grade", IF m.has3 THEN PyInt(IntOf(m.g3)) ELSE PyNA>>,
      <<"team", PyStr(Strip(m.g4))>>,
      <<"finish", PyStr(m.g5)>>,
      <<"point", PyNA>>>>

\* lines 160-165: no dict for a line the pattern does not match
ColeRowOf(m) == IF ~m.matched THEN <<>> ELSE <<ColeRow(m)>>

\* lines 158-181: the dicts of the lines the pattern matches
RECURSIVE ColeRows(_)
ColeRows(data_lines) ==
    IF data_lines = <<>> THEN <<>>
    ELSE ColeRowOf(MatchRow(Head(data_lines))) \o ColeRows(Tail(data_lines))

\* lines 152-156: the lines of the first <pre> that start with a place
DataLines(pre) == SelectSeq(SplitLines(Strip(JoinLines(pre))), StartsWithPlace)

\* lines 144-150: the return statement the call leaves by, "line 146" and
\* "line 150" for the two early returns of an empty DataFrame
WrangleColeExit(html_content) ==
    IF ResultsDiv(html_content) = 0 THEN "line 146"
    ELSE IF html_content.containers[ResultsDiv(html_content)].pres = <<>> THEN "line 150"
    ELSE "line 183"

wrangle_cole(html_content, race_url) ==
    IF WrangleColeExit(html_content) # "line 183"
    THEN FrameWithColumns(<<>>, INDIVIDUAL_TABLE_HEADERS)
    ELSE FrameWithColumns(
             ColeRows(DataLines(html_content.containers[ResultsDiv(html_content)].pres[1])),
             INDIVIDUAL_TABLE_HEADERS)

(***************************************************************************)
(* detect_max, src/get_milesplit_formatted_meet_results.py:187             *)
(***************************************************************************)
REQUIRED_HEADERS_MAX ==
    {"place", "athlete", "grade", "team", "avg mile", "finish", "points"}

\* line 210: any("eventtable" in c for c in classes)
HasEventTableClass(tbl) ==
    \E c \in 1..Len(tbl.classes) : Contains(Lower(tbl.classes[c]), "eventtable")

\* lines 207-212: the index of the table the loop stops at, 0 for None
MaxTable(tables) ==
    LET hits == {i \in 1..Len(tables) : ~HasEventTableClass(tables[i])}
    IN  IF hits # {} THEN MinOf(hits) ELSE 0

\* line 222: the lower-cased texts of the table's <th> cells
ThTexts(tbl) ==
    UNION {{Lower(Strip(tbl.rows[r].ths[c])) : c \in 1..Len(tbl.rows[r].ths)} :
              r \in 1..Len(tbl.rows)}

\* line 230: table.select("tbody a[href]")
LinksInBody(tbl) ==
    IF ~tbl.tbody THEN {}
    ELSE UNION {{<<r, c>> : c \in {d \in 1..Len(tbl.rows[r].tds) :
                                      tbl.rows[r].tds[d].href # NoHref}} :
                   r \in 1..Len(tbl.rows)}

detect_max(html) ==
    LET tables == AllTables(html)
    IN  IF MaxTable(tables) = 0 THEN F0_0
        ELSE LET table   == tables[MaxTable(tables)]
                 score1  == FAdd(F0_0, F0_6)
                 matched == Cardinality(REQUIRED_HEADERS_MAX \cap ThTexts(table))
                 score2  == IF matched # 0
                            THEN FAdd(score1,
                                      FMul(F0_3, FromRatio(matched,
                                                           Cardinality(REQUIRED_HEADERS_MAX))))
                            ELSE score1
                 score3  == IF LinksInBody(table) = {} THEN FAdd(score2, F0_1) ELSE score2
             IN  FMin(score3, F1_0)

(***************************************************************************)
(* detect_adam, wrangle_adam and wrangle_max are called by                 *)
(* process_urls_and_save but defined in no file of the repository.  They   *)
(* are modelled from the specification's contracts: a detector returns 0.0 *)
(* on a page that lacks its format's container (none of the pages below is *)
(* in that format), an extractor returns rows of the canonical schema, an  *)
(* empty sequence when its structure is missing.  The caller discards what *)
(* wrangle_adam and wrangle_max return.                                    *)
(***************************************************************************)
detect_adam(html_content) == F0_0

wrangle_adam(html_content, race_url) == FrameWithColumns(<<>>, INDIVIDUAL_TABLE_HEADERS)

wrangle_max(html_content, race_url) == FrameWithColumns(<<>>, INDIVIDUAL_TABLE_HEADERS)

(***************************************************************************)
(* process_urls_and_save, lines 239-313.                                   *)
(***************************************************************************)
\* lines 267-269: max(scores, key=scores.get) returns the first key, in the
\* dict's order cole, adam, max, whose score no other exceeds
Scores(html_content) ==
    <<<<"cole", detect_cole(html_content)>>,
      <<"adam", detect_adam(html_content)>>,
      <<"max", detect_max(html_content)>>>>

BestIndex(scores) ==
    MinOf({a \in 1..Len(scores) : \A b \in 1..Len(scores) : ~FLess(scores[a][2], scores[b][2])})

BestDetector(scores) == scores[BestIndex(scores)][1]

BestScore(scores) == scores[BestIndex(scores)][2]

\* lines 276-292: the extractor the page is routed to, "none" when skipped
RouteTo(best_detector, best_score) ==
    IF best_detector = "cole" /\ FGe(best_score, F0_7) THEN "cole"
    ELSE IF best_detector = "adam" /\ FGe(best_score, F0_7) THEN "adam"
    ELSE IF best_detector = "max" /\ FGe(best_score, F0_7) THEN "max"
    ELSE "none"

\* a handler that catches the browser's exceptions only
CatchesBrowserErrors(type) == type \in {"Error", "TimeoutError"}

\* line 302: except Exception catches every exception the body can raise
Catches(type) == type \in {"Error", "TimeoutError", "NameError", "IndexError"}

\* a handler that assigns the error record without concatenating it to the
\* records gathered so far
HandleExceptionOverwriting(url, e, metadata_results) ==
    FrameFromDicts(<<TableMeta(extract_race_id(url), url, PyStr(""),
                               "error - " \o e, PyStr(""))>>)

\* lines 303-310: the handler appends one record to metadata_results
HandleException(url, e, metadata_results) ==
    Concat(metadata_results,
           FrameFromDicts(<<TableMeta(extract_race_id(url), url, PyStr(""),
                                      "error - " \o e, PyStr(""))>>))

\* what one pass of the try body leaves: whether it raised, the exception,
\* the three accumulated DataFrames and the extractor invoked
Outcome(raised, type, exc, acc, invoked) ==
    [raised |-> raised, type |-> type, exc |-> exc, acc |-> acc, invoked |-> invoked]

\* lines 294-300: the three DataFrames after the appends of data and metadata
Appended(acc, data, metadata) ==
    [individual |-> IF ~FrameEmpty(data.individual)
                    THEN Concat(acc.individual, data.individual)
                    ELSE acc.individual,
     team       |-> IF ~FrameEmpty(data.team)
                    THEN Concat(acc.team, data.team)
                    ELSE acc.team,
     metadata   |-> IF ~FrameEmpty(metadata)
                    THEN Concat(acc.metadata, metadata)
                    ELSE acc.metadata]

\* lines 267-300, with the detectors' scores: the routing, then the appends.
\* wrangled_data is assigned on the cole route and read nowhere.
Routed(acc, data, metadata, scores) ==
    Outcome(FALSE, "", "", Appended(acc, data, metadata),
            RouteTo(BestDetector(scores), BestScore(scores)))

\* lines 260-300, with what extract_table_data returned or raised
Extracted(html_content, acc, extracted) ==
    IF extracted.raised
    THEN Outcome(TRUE, extracted.type, extracted.exc, acc, "none")
    ELSE Routed(acc, extracted.value, extracted.value.metadata, Scores(html_content))

\* lines 252-300, the body of the try for one URL.  fetch is what the browser
\* meets at the URL: [ok, html], ok FALSE when page.goto fails.  acc holds the
\* three accumulated DataFrames.
TryBody(url, fetch, acc) ==
    IF ~fetch.ok                                  \* page.goto(url)
    THEN Outcome(TRUE, "Error", "net::ERR_CONNECTION_REFUSED", acc, "none")
    ELSE IF AllTables(fetch.html) = <<>>          \* page.wait_for_selector("table")
    THEN Outcome(TRUE, "TimeoutError", "Timeout 7000ms exceeded.", acc, "none")
    ELSE Extracted(fetch.html, acc, extract_table_data(fetch.html, url))

(***************************************************************************)
(* The pages and URLs the model draws its inputs from.                     *)
(***************************************************************************)
MaxUrls == 2

MaxPres == 2

MaxTables == 2

SeqsUpTo(S, n) == UNION {[1..k -> S] : k \in 0..n}

LnHeader == "Pl Athlete Yr Team Time"

LnFull == "1 john smith 11 Lincoln High 16:32.1"

LnNoGrade == "2 JANE DOE  Central 17:01.5"

LnBad == "3 Bob Central 17:20.0"

LnTeamScores == "Team Scores"

\* the header line and a result line: the block of Scenario A
PreA == <<LnHeader, LnFull>>

\* result lines without the header line, one of them not matching the pattern
PreRows == <<LnNoGrade, LnBad>>

PreTeamScores == <<LnTeamScores>>

PreSamples == {PreA, PreRows, PreTeamScores}

Td(class, text, href) == [class |-> class, text |-> text, href |-> href]

Tr(ths, tds) == [ths |-> ths, tds |-> tds]

\* the legacy event table of Scenario C: class eventTable, the required
\* header labels, no link in the body
TblEvent ==
    [classes |-> <<"eventTable">>, tbody |-> TRUE,
     rows |-> <<Tr(<<"Place", "Athlete", "Grade", "Team", "Avg Mile", "Finish", "Points">>,
                   <<>>),
                Tr(<<>>, <<Td("place", "1", NoHref), Td("athlete", " John Smith ", NoHref),
                           Td("team", "Lincoln High", NoHref),
                           Td("finish", "16:32.1", NoHref)>>),
                Tr(<<>>, <<Td("place", "2", NoHref), Td("athlete", "Jane Doe", NoHref),
                           Td("team", "Central", NoHref),
                           Td("finish", "17:01.5", NoHref)>>)>>]

\* a team-scores table without header cells or links
TblBare ==
    [classes |-> <<"results">>, tbody |-> TRUE,
     rows |-> <<Tr(<<>>, <<Td("place", "1", NoHref), Td("tsTeam", "Central", NoHref),
                           Td("point", "21", NoHref)>>),
                Tr(<<>>, <<Td("place", "2", NoHref), Td("tsTeam", "Lincoln High", NoHref),
                           Td("point", "40", NoHref)>>)>>]

\* a table with three of the header labels and athlete links in its body
TblLinks ==
    [classes |-> <<>>, tbody |-> TRUE,
     rows |-> <<Tr(<<"PLACE", "Athlete", " Team ">>, <<>>),
                Tr(<<>>, <<Td("place", "1", NoHref),
                           Td("athlete", "John Smith", "/athletes/11"),
                           Td("team", "Lincoln High", NoHref)>>),
                Tr(<<>>, <<Td("place", "2", NoHref), Td("athlete", "Jane Doe", NoHref)>>)>>]

\* a table with a single row, its cell without a class attribute
TblOneRow ==
    [classes |-> <<>>, tbody |-> FALSE,
     rows |-> <<Tr(<<>>, <<Td(NoClass, "No results", NoHref)>>)>>]

\* a table without header cells whose body holds a link
TblAnchors ==
    [classes |-> <<"results">>, tbody |-> TRUE,
     rows |-> <<Tr(<<>>, <<Td("place", "Pl", NoHref), Td("athlete", "Name", NoHref)>>),
                Tr(<<>>, <<Td("place", "1", NoHref),
                           Td("athlete", "Jane Doe", "/athletes/12")>>)>>]

TableSamples == {TblEvent, TblBare, TblLinks, TblOneRow, TblAnchors}

Container(tag, mark, pres, tables) ==
    [tag |-> tag, mark |-> mark, pres |-> pres, tables |-> tables]

ContainerKinds == {<<"div", "id">>, <<"section", "id">>, <<"div", "class">>}

Containers ==
    {Container(kind[1], kind[2], pres, tables) :
        kind \in ContainerKinds, pres \in SeqsUpTo(PreSamples, MaxPres),
        tables \in {<<>>, <<TblBare>>}}

\* two containers in one document: an element found by class that precedes
\* an element found by id
TwoContainers ==
    {<<Container("div", "class", <<PreA>>, <<>>), Container(kind[1], "id", pres, <<>>)>> :
        kind \in ContainerKinds, pres \in {<<>>, <<PreTeamScores>>}}

Page(containers, tables) == [containers |-> containers, tables |-> tables]

\* a page with at most one table beside its containers, and a page without
\* container that holds up to MaxTables tables
Pages ==
    {Page(cs, ts) :
        cs \in {<<c>> : c \in Containers} \cup TwoContainers,
        ts \in {<<>>, <<TblLinks>>}}
    \cup {Page(<<>>, ts) : ts \in SeqsUpTo(TableSamples, MaxTables)}

\* the pages the batch loop meets
PageA == Page(<<Container("div", "id", <<PreA>>, <<>>)>>, <<>>)

PageAWithTable == Page(<<Container("div", "id", <<PreA>>, <<>>)>>, <<TblLinks>>)

PageB == Page(<<Container("div", "id", <<PreA>>, <<TblBare>>)>>, <<>>)

PageBare == Page(<<>>, <<TblBare>>)

PageEvent == Page(<<>>, <<TblEvent>>)

PageTwoTables == Page(<<>>, <<TblEvent, TblLinks>>)

PageByClass == Page(<<Container("div", "class", <<PreA>>, <<>>)>>, <<TblEvent>>)

PageAnchors == Page(<<>>, <<TblAnchors>>)

BatchPages ==
    {PageA, PageAWithTable, PageB, PageBare, PageEvent, PageTwoTables, PageByClass,
     PageAnchors}

Fetches == {[ok |-> FALSE, html |-> Page(<<>>, <<>>)]} \cup {[ok |-> TRUE, html |-> p] : p \in BatchPages}

Urls == {"https://ms.com/meets/7/results/101/raw", "https://ms.com/results/202"}

(***************************************************************************)
(* State.                                                                  *)
(*   urls, i             the argument of process_urls_and_save and the     *)
(*                       position of its for loop                          *)
(*   pc                  "loop", "returned", or "aborted" when an          *)
(*                       exception leaves the function                     *)
(*   individual_results, team_results, metadata_results                    *)
(*                       the three accumulated DataFrames                  *)
(*   handled             history: per URL handled, what the browser met,   *)
(*                       whether the try body raised and what it invoked   *)
(*   call                FnSpec: the last function applied, its argument   *)
(*                       and its result                                    *)
(***************************************************************************)
VARIABLES urls, i, pc, individual_results, team_results, metadata_results,
          handled, call

vars == <<urls, i, pc, individual_results, team_results, metadata_results,
          handled, call>>

batch == <<urls, i, pc, individual_results, team_results, metadata_results, handled>>

NoCall == [fn |-> "none", html |-> Page(<<>>, <<>>), found |-> FALSE, result |-> <<>>]

Init ==
    /\ urls \in SeqsUpTo(Urls, MaxUrls)
    /\ i = 1
    /\ pc = "loop"
    /\ individual_results = EmptyFrame
    /\ team_results = EmptyFrame
    /\ metadata_results = EmptyFrame
    /\ handled = <<>>
    /\ call = NoCall

\* one pass of the for loop, lines 251-310; out is what the try body leaves
ProcessUrl ==
    /\ pc = "loop"
    /\ i <= Len(urls)
    /\ \E fetch \in Fetches :
         \E out \in {TryBody(urls[i], fetch,
                              [individual |-> individual_results,
                               team |-> team_results,
                               metadata |-> metadata_results])} :
             /\ handled' = Append(handled, [url |-> urls[i], fetch |-> fetch,
                                            raised |-> out.raised, exc |-> out.exc,
                                            invoked |-> out.invoked])
             /\ individual_results' = out.acc.individual
             /\ team_results' = out.acc.team
             /\ IF out.raised /\ ~Catches(out.type)
                THEN /\ pc' = "aborted"
                     /\ UNCHANGED <<i, metadata_results>>
                ELSE /\ pc' = pc
                     /\ i' = i + 1
                     /\ metadata_results' =
                            IF out.raised
                            THEN HandleException(urls[i], out.exc, out.acc.metadata)
                            ELSE out.acc.metadata
    /\ UNCHANGED <<urls, call>>

\* lines 312-313: browser.close() and the return
ReturnResults ==
    /\ pc = "loop"
    /\ i > Len(urls)
    /\ pc' = "returned"
    /\ UNCHANGED <<urls, i, individual_results, team_results, metadata_results,
                   handled, call>>

Next == ProcessUrl \/ ReturnResults

Spec == Init /\ [][Next]_vars

(***************************************************************************)
(* FnSpec: one application of a detector or an extractor to a page.        *)
(***************************************************************************)
FnInit ==
    /\ urls = <<>>
    /\ i = 1
    /\ pc = "loop"
    /\ individual_results = EmptyFrame
    /\ team_results = EmptyFrame
    /\ metadata_results = EmptyFrame
    /\ handled = <<>>
    /\ call = NoCall

Applied(fn, html, found, result) ==
    [fn |-> fn, html |-> html, found |-> found, result |-> result]

DetectCole ==
    /\ call = NoCall
    /\ \E html \in Pages : call' = Applied("detect_cole", html, TRUE, detect_cole(html))
    /\ UNCHANGED batch

DetectColePath ==
    /\ call = NoCall
    /\ \E html \in Pages, found \in BOOLEAN :
         call' = Applied("detect_cole_path", html, found,
                         detect_cole_path([found |-> found, html |-> html]))
    /\ UNCHANGED batch

DetectMax ==
    /\ call = NoCall
    /\ \E html \in Pages : call' = Applied("detect_max", html, TRUE, detect_max(html))
    /\ UNCHANGED batch

WrangleCole ==
    /\ call = NoCall
    /\ \E html \in Pages, url \in Urls :
         call' = Applied("wrangle_cole", html, TRUE, wrangle_cole(html, url))
    /\ UNCHANGED batch

ExtractTableData ==
    /\ call = NoCall
    /\ \E html \in Pages, url \in Urls :
         call' = Applied("extract_table_data", html, TRUE, extract_table_data(html, url))
    /\ UNCHANGED batch

FnNext == DetectCole \/ DetectColePath \/ DetectMax \/ WrangleCole \/ ExtractTableData

FnSpec == FnInit /\ [][FnNext]_vars
(***************************************************************************)
(* Properties of the batch loop, checked under Spec.                       *)
(***************************************************************************)
\* the browser loaded the page of h and found a table on it: the try body
\* got as far as page.content()
Loaded(h) == h.fetch.ok /\ AllTables(h.fetch.html) # <<>>

\* the entry of the page the step has just handled
LastHandled(hs) == hs[Len(hs)]

\* the DataFrame of the extractor paired with the page's best detector
WinnerFrame(html_content, url) ==
    LET best_detector == BestDetector(Scores(html_content))
    IN  IF best_detector = "cole" THEN wrangle_cole(html_content, url)
        ELSE IF best_detector = "adam" THEN wrangle_adam(html_content, url)
        ELSE wrangle_max(html_content, url)

\* the page of h was classified and its best score is at least 0.7
Accepted(h) == Loaded(h) /\ FGe(BestScore(Scores(h.fetch.html)), F0_7)

\* the page of h was classified and its best score is below 0.7
LowConfidence(h) == Loaded(h) /\ FLess(BestScore(Scores(h.fetch.html)), F0_7)

\* the individual rows after the extractor's rows for the page of h are
\* appended to the rows of before
WithWinnerRows(before, h) == Concat(before, WinnerFrame(h.fetch.html, h.url)).rows

\* the routing of the page of h, whose detectors give scores, as C1 states it
RoutedByThreshold(h, scores) ==
    /\ h.invoked # "none"
        => h.invoked = BestDetector(scores) /\ FGe(BestScore(scores), F0_7)
    /\ Loaded(h) /\ BestScore(scores) = F0_7
        => h.invoked = BestDetector(scores)
    /\ FLess(BestScore(scores), F0_7) => h.invoked = "none"

\* C1: an extractor is invoked on a page only if its detector holds the
\* maximum score and that score is >= 0.7; a loaded page whose top score is
\* exactly 0.7 is accepted, its extractor invoked; a page whose top score is
\* below 0.7 has no extractor invoked.
C1_RoutingByThreshold ==
    \A k \in 1..Len(handled) :
        RoutedByThreshold(handled[k], Scores(handled[k].fetch.html))

\* C2: the individual rows an accepted page adds to the returned results are
\* the rows of the winning format's extractor.
C2_AcceptedRowsFromExtractor ==
    [][Len(handled') = Len(handled) + 1 /\ Accepted(LastHandled(handled'))
       => individual_results'.rows
              = WithWinnerRows(individual_results, LastHandled(handled'))]_vars

C4_ExceptionsBecomeRecords ==
    /\ pc # "aborted"
    /\ Len(handled) = i - 1
    /\ \A k \in 1..Len(handled) :
          handled[k].raised
          => \E r \in 1..Len(metadata_results.rows) :
                /\ metadata_results.rows[r]["url"] = PyStr(handled[k].url)
                /\ metadata_results.rows[r]["table_type"]
                       = PyStr("error - " \o handled[k].exc)
    /\ pc = "returned" => Len(handled) = Len(urls)

\* the call returned after a page that failed to load, a page on which no
\* table appeared and a page on which extract_table_data raised
C4_Witness ==
    /\ pc = "returned"
    /\ Len(handled) = 2
    /\ handled[1].raised /\ ~Loaded(handled[1])
    /\ handled[2].raised /\ Loaded(handled[2])
    /\ Len(metadata_results.rows) = 2

LacksEveryContainer(html) ==
    /\ html.containers = <<>>
    /\ \A t \in 1..Len(html.tables) :
          \A c \in 1..Len(html.tables[t].classes) : html.tables[t].classes[c] # "eventTable"

\* C5: on a page that lacks the results container of every format, detect_cole
\* and detect_max return exactly 0.0 and the page is not accepted.
C5_NoContainerScoresZero ==
    call.fn \in {"detect_cole", "detect_max"} /\ LacksEveryContainer(call.html)
    => /\ call.result = F0_0
       /\ FLess(BestScore(Scores(call.html)), F0_7)

\* the score C6 states: 0.0 under the veto, else 0.3, plus 0.6 for the
\* headers, plus 0.1 without team scores, as the nearest float
ColeScoreStated(results_body) ==
    IF results_body.tables # <<>> \/ results_body.pres = <<>> THEN F0_0
    ELSE FromRatio(3 + (IF HasColeHeaders(results_body.pres) THEN 6 ELSE 0)
                     + (IF FoundTeamScores(results_body.pres) THEN 0 ELSE 1), 10)

\* C6: detect_cole returns 0.0 when the container holds a table or no pre
\* block, otherwise 0.3 plus 0.6 for the headers plus 0.1 without team
\* scores: 1.0 on the page of Scenario A, 0.0 on the page of Scenario B.
C6_ColeScore ==
    call.fn \in {"detect_cole", "detect_cole_path"} /\ call.found
        /\ ResultsBody(call.html) # 0
    => call.result = ColeScoreStated(call.html.containers[ResultsBody(call.html)])

\* the page of Scenario C: one table, of class eventTable, whose header cells
\* are the required labels and whose body holds no link
IsScenarioC(html) ==
    /\ html.containers = <<>>
    /\ Len(html.tables) = 1
    /\ \E c \in 1..Len(html.tables[1].classes) : html.tables[1].classes[c] = "eventTable"
    /\ ThTexts(html.tables[1]) = REQUIRED_HEADERS_MAX
    /\ LinksInBody(html.tables[1]) = {}

\* C7: on the page of Scenario C detect_max returns 1.0.
C7_EventTableScoresOne ==
    call.fn = "detect_max" /\ IsScenarioC(call.html) => call.result = F1_0

\* the value is None, pd.NA or NaN
IsNull(v) == v.k \in {"None", "NA", "NaN"}

C10_DetectorAndExtractorAgree ==
    call.fn = "detect_cole" /\ FGe(call.result, F0_7)
    => WrangleColeExit(call.html) = "line 183"
====
